---- MODULE Spec2Model ----
(***************************************************************************)
(* A model of ow-waybar: the OpenWeather client and formatter of           *)
(* src/ow-popup.py and the helpers of src/tools.py it relies on.           *)
(*                                                                         *)
(* Python values are tagged records, so that truthiness and the typed      *)
(* comparisons of the code (cod in ["200", 200]) are computed as Python    *)
(* computes them:                                                          *)
(*   None            [t |-> "none"]                                        *)
(*   int n           [t |-> "int",   v |-> n]                              *)
(*   float x         [t |-> "float", v |-> 1000 * x]   (thousandths)       *)
(*   str s           [t |-> "str",   v |-> s]                              *)
(*   a formatted str [t |-> "fstr", k |-> <format>, ...its arguments]      *)
(*   dict            [t |-> "dict", <key> |-> <value>, ...]                *)
(* A key is in a dict exactly when it is in the record's DOMAIN.           *)
(* An exception travelling up the stack is [t |-> "exc", e |-> <type>].    *)
(***************************************************************************)
EXTENDS Integers, Sequences, FiniteSets, TLC

----------------------------------------------------------------------------
(* Python values *)

None == [t |-> "none"]
I(n) == [t |-> "int", v |-> n]
F(m) == [t |-> "float", v |-> m]
S(s) == [t |-> "str", v |-> s]
EmptyDict == [t |-> "dict"]
B(b) == [t |-> "bool", v |-> b]
Raise(e) == [t |-> "exc", e |-> e]

IsExc(x) == x.t = "exc"

\* bool(x): None, False, 0, 0.0, "" and {} are falsy.
Truthy(x) ==
    CASE x.t = "none" -> FALSE
      [] x.t \in {"int", "float"} -> x.v # 0
      [] x.t = "str" -> x.v # ""
      [] x.t = "bool" -> x.v
      [] x.t = "dict" -> DOMAIN x # {"t"}
      [] OTHER -> TRUE

\* key in d
Has(d, k) == k \in DOMAIN d

\* cod in ["200", 200]
CodSuccess(cod) == cod = S("200") \/ cod = I(200)

SeqToSet(s) == {s[i] : i \in DOMAIN s}

RECURSIVE FilterTruthy(_)
FilterTruthy(s) ==
    IF s = <<>> THEN <<>>
    ELSE IF Truthy(Head(s)) THEN <<Head(s)>> \o FilterTruthy(Tail(s))
    ELSE FilterTruthy(Tail(s))

\* sep.join(filter(lambda _: _, args)): the empty string when nothing is
\* left, the part itself when one is left.
Joined(kept, sep) ==
    IF kept = <<>> THEN S("")
    ELSE IF Len(kept) = 1 THEN kept[1]
    ELSE [t |-> "fstr", k |-> "join", sep |-> sep, parts |-> kept]

join(args, sep) == Joined(FilterTruthy(args), sep)

\* round(x, 1) of a number held in thousandths, as tenths.  A tie (x.x5) is
\* rounded to the even tenth, which is what Python does for the ties a
\* binary float holds exactly (0.25, 20.75); the inputs of the model hold no
\* other tie.
RoundHalfEven(m, unit) ==
    LET a == IF m < 0 THEN -m ELSE m
        q == a \div unit
        r == a % unit
        up == (2 * r > unit) \/ (2 * r = unit /\ q % 2 = 1)
        n == IF up THEN q + 1 ELSE q
    IN  IF m < 0 THEN -n ELSE n

\* float(x) held in thousandths; a string that is no number raises.
Millis(x) == IF x.t = "int" THEN 1000 * x.v ELSE x.v

IsNumber(x) == x.t \in {"int", "float"}

degrees == [standard |-> "K", metric |-> "C", imperial |-> "F"]

----------------------------------------------------------------------------
(* The icon table, get_icon and direction *)

icons ==
    [i \in {800} |-> "U+F185"] @@ [i \in {801} |-> "U+F746"] @@
    [i \in {802, 803} |-> "U+F0C2"] @@ [i \in {804} |-> "U+F744"] @@
    [i \in {300, 301, 302, 310, 311, 312, 313, 314, 321, 500, 520}
        |-> "U+F738"] @@
    [i \in {501, 521} |-> "U+F73F"] @@
    [i \in {502, 503, 504, 522, 531} |-> "U+F740"] @@
    [i \in {511} |-> "U+F2DC"] @@
    [i \in {200, 201, 202, 210, 211, 212, 221, 230, 231, 232} |-> "U+F76C"] @@
    [i \in {600, 601, 602, 620, 621, 622} |-> "U+F742"] @@
    [i \in {611, 612, 613, 615, 616} |-> "U+F741"] @@
    [i \in {701, 731, 741, 751, 761, 771} |-> "U+F74E"] @@
    [i \in {711} |-> "U+F760"] @@ [i \in {721} |-> "U+F765"] @@
    [i \in {762} |-> "U+F770"] @@ [i \in {781} |-> "U+F76F"]

get_icon(id) ==
    IF id.t = "int" /\ id.v \in DOMAIN icons THEN S(icons[id.v])
    ELSE S("sparkles")

direction_first_range_only(deg) ==
    IF 0 <= deg /\ deg <= 23 THEN "N"
    ELSE IF 24 <= deg /\ deg <= 68 THEN "NE"
    ELSE IF 69 <= deg /\ deg <= 113 THEN "E"
    ELSE IF 114 <= deg /\ deg <= 158 THEN "SE"
    ELSE IF 159 <= deg /\ deg <= 203 THEN "S"
    ELSE IF 204 <= deg /\ deg <= 248 THEN "SW"
    ELSE IF 249 <= deg /\ deg <= 293 THEN "W"
    ELSE IF 293 <= deg /\ deg <= 336 THEN "NW"
    ELSE "WTF"

direction(deg) ==
    IF (0 <= deg /\ deg <= 23) \/ (337 <= deg /\ deg <= 360) THEN "N"
    ELSE IF 24 <= deg /\ deg <= 68 THEN "NE"
    ELSE IF 69 <= deg /\ deg <= 113 THEN "E"
    ELSE IF 114 <= deg /\ deg <= 158 THEN "SE"
    ELSE IF 159 <= deg /\ deg <= 203 THEN "S"
    ELSE IF 204 <= deg /\ deg <= 248 THEN "SW"
    ELSE IF 249 <= deg /\ deg <= 293 THEN "W"
    ELSE IF 293 <= deg /\ deg <= 336 THEN "NW"
    ELSE "WTF"

----------------------------------------------------------------------------
(* get_ow_property and the accessors of OpenWeather built on it *)

Fmt(k, a) == [t |-> "fstr", k |-> k, a |-> a]

\* "{}".format(x)
Str(x) == IF x.t = "str" THEN x ELSE Fmt("str", x)

SecondsPerDay == 24 * 3600

\* strftime("%H:%M") of a timestamp, as minutes since midnight (the local
\* zone is taken to be UTC).
HourMinute(ts) == (ts % SecondsPerDay) \div 60

\* strftime("%A %-e %B") of a timestamp: the calendar day.
DayLabel(ts) == ts \div SecondsPerDay

get_ow_property(data, name) ==
    CASE name \in {"country", "sunrise", "sunset"} ->
            IF ~Has(data, "sys") THEN Raise("KeyError")
            ELSE IF Has(data.sys, name) /\ Truthy(data.sys[name]) THEN
                IF name = "country" THEN Str(data.sys[name])
                ELSE Fmt(name, I(HourMinute(data.sys[name].v)))
            ELSE S("")
      [] name \in {"icon", "desc"} ->
            IF ~Has(data, "weather") THEN Raise("KeyError")
            ELSE IF data.weather = <<>> THEN Raise("IndexError")
            ELSE IF name = "icon" THEN
                IF Has(data.weather[1], "id")
                THEN get_icon(data.weather[1].id) ELSE S("")
            ELSE IF Has(data.weather[1], "description") THEN
                IF data.weather[1].description = S("") THEN S("")
                ELSE Fmt("capitalize", data.weather[1].description)
            ELSE S("")
      [] name \in {"temp", "feels_like", "humidity", "pressure"} ->
            IF ~Has(data, "main") THEN Raise("KeyError")
            ELSE IF Has(data.main, name) /\ Truthy(data.main[name]) THEN
                CASE name = "humidity" -> Fmt("percent", data.main[name])
                  [] name = "pressure" -> Fmt("hPa", data.main[name])
                  [] OTHER -> data.main[name]
            ELSE S("")
      [] name = "wind_speed" ->
            IF Has(data, "wind") /\ Has(data.wind, "speed")
            THEN Fmt("m/s", data.wind.speed) ELSE S("")
      [] name = "wind_dir" ->
            IF Has(data, "wind") /\ Has(data.wind, "deg")
            THEN S(direction(data.wind.deg.v)) ELSE S("")
      [] name = "wind_gust" ->
            IF Has(data, "wind") /\ Has(data.wind, "gust")
            THEN Fmt("m/s", data.wind.gust) ELSE S("")
      [] name = "clouds" ->
            IF Has(data, "clouds") /\ Has(data.clouds, "all")
            THEN Fmt("percent", data.clouds.all) ELSE S("")
      [] name = "visibility" ->
            IF Has(data, "visibility")
            THEN Fmt("km", I(Millis(data.visibility) \div 1000000))
            ELSE S("")
      [] OTHER -> S("")

\* The vocabulary key an accessor labels its value with (self.lang[...]).
VocKey ==
    [feels_like |-> "feels-like", humidity |-> "humidity",
     pressure |-> "pressure", wind_speed |-> "wind", wind_gust |-> "gust",
     clouds |-> "cloudiness", visibility |-> "visibility"]

\* str(round(float(s), 1)) + unit: the rounded value in tenths and the unit.
TempText(s, unit) ==
    [t |-> "fstr", k |-> "temp", tenths |-> RoundHalfEven(Millis(s), 100),
     unit |-> unit]

\* What an accessor makes of the value s that get_ow_property returned.
Labelled(s, settings, lang, name) ==
    IF IsExc(s) THEN s
    ELSE IF ~Truthy(s) THEN None
    ELSE CASE name = "country" -> Fmt("paren", s)
           [] name = "temp" ->
                IF ~IsNumber(s) THEN Raise("ValueError")
                ELSE IF ~Has(degrees, settings["units"].v)
                     THEN Raise("KeyError")
                ELSE TempText(s, degrees[settings["units"].v])
           [] name = "feels_like" ->
                IF ~Has(lang, "feels-like") THEN Raise("KeyError")
                ELSE IF ~IsNumber(s) THEN Raise("ValueError")
                ELSE [t |-> "fstr", k |-> "label", label |-> lang["feels-like"],
                      a |-> TempText(s, "")]
           [] name \in {"humidity", "pressure", "wind_speed", "clouds",
                        "visibility"} ->
                IF ~Has(lang, VocKey[name]) THEN Raise("KeyError")
                ELSE [t |-> "fstr", k |-> "label", label |-> lang[VocKey[name]],
                      a |-> s]
           [] name = "wind_gust" ->
                IF ~Has(lang, "gust") THEN Raise("KeyError")
                ELSE [t |-> "fstr", k |-> "gust", label |-> lang["gust"],
                      a |-> s]
           [] OTHER -> s

\* The properties country .. visibility of OpenWeather: None when
\* get_ow_property returns a falsy value.
Accessor(weather, settings, lang, name) ==
    Labelled(get_ow_property(weather, name), settings, lang, name)

\* loc_label
loc_label(weather, settings) ==
    IF Has(weather, "name") /\ ~Truthy(settings["loc-name"])
    THEN weather.name ELSE settings["loc-name"]

\* gps
gps(settings) == [t |-> "fstr", k |-> "gps", lat |-> settings["lat"],
                  long |-> settings["long"]]

----------------------------------------------------------------------------
(* display_popup *)

\* The first exception among the values, in evaluation order; None if none.
RECURSIVE FirstExc(_)
FirstExc(vals) ==
    IF vals = <<>> THEN None
    ELSE IF IsExc(Head(vals)) THEN Head(vals)
    ELSE FirstExc(Tail(vals))

\* '<span font_size="{}">{}</span>'.format(size, content)
Span(size, content) ==
    [t |-> "fstr", k |-> "span", size |-> size, a |-> content]

\* One piece of a forecast row: the glyph and span of a field.
Item(field, a) == [t |-> "fstr", k |-> "item", field |-> field, a |-> a]

\* "({})".format(x) of a truthy x, x itself otherwise.
ParenIfTruthy(x) == IF Truthy(x) THEN Fmt("paren", x) ELSE x

\* "{}deg".format(str(int(round(value, 0)))) for each of the values kept.
DegreeTexts(raw, kept) ==
    IF IsExc(FirstExc(raw)) THEN FirstExc(raw)
    ELSE IF \E i \in DOMAIN kept : ~IsNumber(kept[i])
         THEN Raise("TypeError")
    ELSE [t |-> "list",
          v |-> [i \in DOMAIN kept |->
                    Fmt("degree", I(RoundHalfEven(Millis(kept[i]), 1000)))]]

TruthyOf(raw) == DegreeTexts(raw, FilterTruthy(raw))

\* The values of the comprehension over ["temp", "feels_like"]: one text
\* per truthy property.
ForecastTemps(data) ==
    TruthyOf(<<get_ow_property(data, "temp"),
               get_ow_property(data, "feels_like")>>)

\* An optional item of a forecast row: shown when its toggle is on and its
\* value is truthy.
Gated(settings, toggle, field, cursize, value) ==
    IF Truthy(settings[toggle]) /\ Truthy(value)
    THEN <<Item(field, Span(cursize, value))>> ELSE <<>>

\* The items of one forecast entry after its temperatures (lines 462-515).
OptionalItems(data, settings, cursize) ==
    Gated(settings, "show-humidity", "humidity", cursize,
          get_ow_property(data, "humidity"))
    \o Gated(settings, "show-wind", "wind", cursize,
             join(<<get_ow_property(data, "wind_speed"),
                    get_ow_property(data, "wind_dir"),
                    ParenIfTruthy(get_ow_property(data, "wind_gust"))>>,
                  " "))
    \o Gated(settings, "show-pressure", "pressure", cursize,
             get_ow_property(data, "pressure"))
    \o Gated(settings, "show-cloudiness", "cloudiness", cursize,
             get_ow_property(data, "clouds"))
    \o Gated(settings, "show-visibility", "visibility", cursize,
             get_ow_property(data, "visibility"))
    \o (IF Truthy(settings["show-pop"]) /\ Has(data, "pop")
            /\ Truthy(data.pop)
        THEN <<Item("pop", Span(cursize,
                 I(RoundHalfEven(Millis(data.pop) * 100, 1000))))>>
        ELSE <<>>)
    \o (IF Truthy(settings["show-volume"]) /\ Has(data, "rain")
            /\ Has(data.rain, "3h")
        THEN <<Item("rain", Span(cursize,
                 I(RoundHalfEven(Millis(data.rain["3h"]), 10))))>>
        ELSE <<>>)
    \o (IF Truthy(settings["show-volume"]) /\ Has(data, "snow")
            /\ Has(data.snow, "3h")
        THEN <<Item("snow", Span(cursize,
                 I(RoundHalfEven(Millis(data.snow["3h"]), 10))))>>
        ELSE <<>>)

\* The time, the icon and description, and the temperatures of an entry
\* (lines 441-461), temps being the texts of its temperatures.
FixedItems(data, cursize, temps) ==
    <<Item("time", I(HourMinute(data.dt.v)))>>
    \o (IF Has(data, "weather") /\ Truthy(data.weather[1])
        THEN <<Item("weather", Span(cursize,
                  join(<<get_ow_property(data, "icon"),
                         get_ow_property(data, "desc")>>, "  ")))>>
        ELSE <<>>)
    \o <<Item("temp", Span(cursize,
            join(<<temps[1], ParenIfTruthy(temps[2])>>, " ")))>>

\* The items of an entry, or the exception it raises: no "dt", an empty
\* "weather" list, no "main", or fewer than two truthy temperatures
\* (values[1] is subscripted unguarded).
ItemsWith(data, settings, cursize, temps) ==
    IF ~Has(data, "dt") THEN Raise("KeyError")
    ELSE IF Has(data, "weather") /\ data.weather = <<>>
         THEN Raise("IndexError")
    ELSE IF IsExc(temps) THEN temps
    ELSE IF Len(temps.v) < 2 THEN Raise("IndexError")
    ELSE [t |-> "list",
          v |-> FixedItems(data, cursize, temps.v)
                \o OptionalItems(data, settings, cursize)]

\* The items of one forecast entry (lines 441-515).
EntryItems(data, settings, cursize) ==
    ItemsWith(data, settings, cursize, ForecastTemps(data))

\* if i > 31: break
LastForecastIndex == 31

\* The day header of an entry, when its calendar day differs from curday.
DayHeader(data, curday, cursize) ==
    IF DayLabel(data.dt.v) # curday
    THEN <<[t |-> "fstr", k |-> "day", size |-> cursize,
            a |-> I(DayLabel(data.dt.v))]>>
    ELSE <<>>

\* The rows the loop appends for the entry at index i (counted from 0 as in
\* the code; the list is a sequence, indexed from 1): the day header when
\* its day is not curday, the day of the entry before it ("" at first,
\* here -1), and the row of its items.
EntryRows(list, i, settings) ==
    DayHeader(list[i + 1],
              IF i = 0 THEN -1 ELSE DayLabel(list[i].dt.v),
              settings["popup-forecast-size"])
    \o <<Fmt("row", EntryItems(list[i + 1], settings,
                               settings["popup-forecast-size"]).v)>>

LoopEnd_no_break(list) == Len(list)

\* How many entries the loop goes through: "if i > 31: break".
LoopEnd(list) ==
    IF Len(list) > LastForecastIndex + 1 THEN LastForecastIndex + 1
    ELSE Len(list)

\* The rows of all the turns of the loop, one after the other.
RECURSIVE Flatten(_)
Flatten(seqs) ==
    IF seqs = <<>> THEN <<>> ELSE Head(seqs) \o Flatten(Tail(seqs))

\* The loop over self.forecast["list"]: the rows it appends, or the
\* exception the first entry that raises one ends it with.
ForecastRows(list, settings) ==
    IF \E i \in 1..LoopEnd(list) :
           IsExc(EntryItems(list[i], settings,
                            settings["popup-forecast-size"]))
    THEN EntryItems(
            list[CHOOSE i \in 1..LoopEnd(list) :
                    /\ IsExc(EntryItems(list[i], settings,
                                        settings["popup-forecast-size"]))
                    /\ \A j \in 1..(i - 1) :
                         ~IsExc(EntryItems(list[j], settings,
                                           settings["popup-forecast-size"]))],
            settings, settings["popup-forecast-size"])
    ELSE [t |-> "list",
          v |-> Flatten([i \in 1..LoopEnd(list) |->
                            EntryRows(list, i - 1, settings)])]

\* What a call returns to its caller: the exception that escapes it (None
\* when it returns), the lines it printed to standard output, and its value.
Outcome(exc, out, ret) == [exc |-> exc, out |-> out, ret |-> ret]

NoData == Outcome(None, <<S("No data available")>>, None)

AccessorNames ==
    {"icon", "temp", "desc", "feels_like", "pressure", "humidity",
     "wind_speed", "wind_dir", "wind_gust", "clouds", "visibility",
     "country", "sunrise", "sunset"}

\* The rows of the current weather (lines 413-422), p being the accessors'
\* values.
WeatherRows(p, settings) ==
    <<Span(S("xx-large"), join(<<p["icon"], p["temp"]>>, " "))>>
    \o [i \in DOMAIN FilterTruthy(
                 <<join(<<p["desc"], p["feels_like"]>>, " - "),
                   join(<<p["pressure"], p["humidity"]>>, " - "),
                   join(<<p["wind_speed"], p["wind_dir"], p["wind_gust"]>>,
                        " "),
                   join(<<p["clouds"], p["visibility"]>>, " - ")>>) |->
          Span(settings["popup-text-size"],
               FilterTruthy(
                 <<join(<<p["desc"], p["feels_like"]>>, " - "),
                   join(<<p["pressure"], p["humidity"]>>, " - "),
                   join(<<p["wind_speed"], p["wind_dir"], p["wind_gust"]>>,
                        " "),
                   join(<<p["clouds"], p["visibility"]>>, " - ")>>)[i])]

\* The footer and the time stamp (lines 517-530).
FooterRows(p, weather, settings, forecast_file) ==
    <<[t |-> "fstr", k |-> "footer",
       size |-> settings["popup-forecast-size"],
       a |-> join(<<loc_label(weather, settings), p["country"],
                    p["sunrise"], p["sunset"]>>, " ")]>>
    \o (IF forecast_file.exists
        THEN <<Span(settings["popup-forecast-size"],
                    join(<<gps(settings),
                           Fmt("mtime", I(forecast_file.mtime))>>, " "))>>
        ELSE <<>>)

\* The popup, or the first exception raised on the way: by an accessor of
\* the current weather, by the forecast loop, by an accessor of the footer.
Assembled(p, fc, weather, settings, forecast_file) ==
    IF \E n \in AccessorNames \ {"country", "sunrise", "sunset"} : IsExc(p[n])
    THEN Outcome(FirstExc(<<p["icon"], p["temp"], p["desc"], p["feels_like"],
                            p["pressure"], p["humidity"], p["wind_speed"],
                            p["wind_dir"], p["wind_gust"], p["clouds"],
                            p["visibility"]>>), <<>>, None)
    ELSE IF IsExc(fc) THEN Outcome(fc, <<>>, None)
    ELSE IF IsExc(p["country"]) THEN Outcome(p["country"], <<>>, None)
    ELSE Outcome(None, <<>>,
                 [t |-> "fstr", k |-> "popup",
                  rows |-> WeatherRows(p, settings) \o fc.v
                           \o FooterRows(p, weather, settings,
                                         forecast_file)])

\* The rows display_popup builds once its guard has passed (lines 410-531).
PopupRows(weather, forecast, settings, lang, forecast_file) ==
    Assembled([n \in AccessorNames |-> Accessor(weather, settings, lang, n)],
              IF ~Has(forecast, "list") THEN Raise("KeyError")
              ELSE ForecastRows(forecast.list, settings),
              weather, settings, forecast_file)

\* display_popup: the guard subscripts self.forecast without testing it, so
\* None raises TypeError and a dict without "cod" raises KeyError; "No data
\* available" is printed with print, to standard output.
display_popup(weather, forecast, settings, lang, forecast_file) ==
    IF ~Truthy(weather) THEN NoData
    ELSE IF ~Has(weather, "cod") THEN Outcome(Raise("KeyError"), <<>>, None)
    ELSE IF ~CodSuccess(weather.cod) THEN NoData
    ELSE IF forecast = None THEN Outcome(Raise("TypeError"), <<>>, None)
    ELSE IF ~Has(forecast, "cod") THEN Outcome(Raise("KeyError"), <<>>, None)
    ELSE IF ~CodSuccess(forecast.cod) THEN NoData
    ELSE PopupRows(weather, forecast, settings, lang, forecast_file)

----------------------------------------------------------------------------
(* tools.py: check_key, load_json, save_json, file_age *)

check_key_overwrites(dictionary, key, default_value) ==
    (key :> default_value) @@ dictionary

\* check_key: adds the key with the default value if it is missing.
check_key(dictionary, key, default_value) ==
    IF key \notin DOMAIN dictionary
    THEN dictionary @@ (key :> default_value)
    ELSE dictionary

\* A file: whether it exists, its modification time, and its content: the
\* value its text parses to, or Garbage when the text is no JSON document.
Garbage == [t |-> "garbage"]
NoFile == [exists |-> FALSE, mtime |-> 0, content |-> Garbage]
File(mtime, content) == [exists |-> TRUE, mtime |-> mtime, content |-> content]

\* load_json: the parsed content, {} on any failure.
load_json(file) ==
    IF file.exists /\ file.content # Garbage THEN file.content ELSE EmptyDict

save_json_truncating(src_dict, file, now, writable) ==
    IF writable THEN File(now, src_dict) ELSE File(now, Garbage)

\* save_json: open(path, "w") and json.dump; when the file cannot be opened
\* the error is returned (and dropped by the callers) and the file is as it
\* was.
save_json(src_dict, file, now, writable) ==
    IF writable THEN File(now, src_dict) ELSE file

\* file_age
file_age(file, now) == now - file.mtime

----------------------------------------------------------------------------
(* OpenWeather: the default table, get_weather / get_forecast, update_widget *)

\* A coordinate is a float held in units of 1e-7 degree.
Coord(n) == [t |-> "float", v |-> n]
DefaultLat == Coord(488583701)
DefaultLong == Coord(22944813)

defaults ==
    EmptyDict @@ [k \in {"appid"} |-> S("")] @@ [k \in {"lat"} |-> DefaultLat] @@
    [k \in {"long"} |-> DefaultLong] @@ [k \in {"lang"} |-> S("fr")] @@
    [k \in {"units"} |-> S("metric")] @@ [k \in {"interval"} |-> I(1800)] @@
    [k \in {"loc-name"} |-> S("Paris")] @@
    [k \in {"popup-text-size"} |-> S("medium")] @@
    [k \in {"popup-forecast-size"} |-> S("small")] @@
    [k \in {"show-name", "show-humidity", "show-wind", "show-pressure",
            "show-cloudiness", "show-visibility", "show-pop", "show-volume"}
        |-> B(FALSE)] @@
    [k \in {"module-id"} |-> S("owm")]

\* The keys of the default table in the order the constructor visits them.
DefaultKeys ==
    <<"appid", "lat", "long", "lang", "units", "interval", "loc-name",
      "show-name", "popup-text-size", "popup-forecast-size", "show-humidity",
      "show-wind", "show-pressure", "show-cloudiness", "show-visibility",
      "show-pop", "show-volume", "module-id">>

\* The request URL: its endpoint and the settings formatted into it.
RequestUrl(endpoint, settings) ==
    [endpoint |-> endpoint, lat |-> settings["lat"], lon |-> settings["long"],
     units |-> settings["units"], lang |-> settings["lang"],
     appid |-> settings["appid"]]

coordinates_replace_falsy_one_only(settings) ==
    [k \in DOMAIN settings |->
        IF k = "lat" /\ ~Truthy(settings["lat"]) THEN DefaultLat
        ELSE IF k = "long" /\ ~Truthy(settings["long"]) THEN DefaultLong
        ELSE settings[k]]

\* Lines 221-225: the dummy location when either coordinate is falsy.
coordinates(settings) ==
    IF ~Truthy(settings["lat"]) \/ ~Truthy(settings["long"])
    THEN [k \in DOMAIN settings |->
             IF k = "lat" THEN DefaultLat
             ELSE IF k = "long" THEN DefaultLong
             ELSE settings[k]]
    ELSE settings

\* An HTTP exchange: requests.get raises (ok = FALSE), or returns a text
\* that json.loads parses to body (Garbage: json.loads raises).
NetError == [ok |-> FALSE, body |-> Garbage]
Reply(body) == [ok |-> TRUE, body |-> body]

\* What the try block of get_weather / get_forecast leaves in the snapshot.
requested_snapshot(resp) ==
    IF ~resp.ok \/ resp.body = Garbage THEN None
    ELSE IF resp.body.t # "dict" \/ ~Has(resp.body, "cod") THEN None
    ELSE resp.body

is_stale_at_interval(file, settings, now) ==
    file_age(file, now) > settings["interval"].v

\* file_age(path) > interval - 1
is_stale(file, settings, now) ==
    file_age(file, now) > settings["interval"].v - 1

\* not os.path.isfile(path) or int(file_age(path) > interval - 1)
must_request(file, settings, now) ==
    ~file.exists \/ is_stale(file, settings, now)

saved_any_cod(snapshot, file, now, writable) ==
    IF snapshot # None THEN save_json(snapshot, file, now, writable) ELSE file

\* if snapshot["cod"] in ["200", 200]: save_json(snapshot, path)
saved(snapshot, file, now, writable) ==
    IF snapshot # None /\ CodSuccess(snapshot.cod)
    THEN save_json(snapshot, file, now, writable)
    ELSE file

\* get_weather and get_forecast (the two are the same code on their own
\* snapshot, file and URL): the snapshot and the file after the call, and
\* whether a request was issued.
fetch(what, snapshot, file, settings, now, resp, writable) ==
    IF must_request(file, settings, now) THEN
        [snapshot |-> requested_snapshot(resp),
         file |-> saved(requested_snapshot(resp), file, now, writable),
         requested |-> TRUE,
         log |-> <<S("Requesting " \o what \o " data")>>
                 \o IF requested_snapshot(resp) = None
                    THEN <<S("exception")>> ELSE <<>>]
    ELSE IF ~Truthy(snapshot) THEN
        [snapshot |-> load_json(file), file |-> file, requested |-> FALSE,
         log |-> <<S("Loading " \o what \o " data from file")>>
                 \o IF file.content = Garbage
                    THEN <<S("Error loading json")>> ELSE <<>>]
    ELSE [snapshot |-> snapshot, file |-> file, requested |-> FALSE,
          log |-> <<>>]

\* " ".join(row)
SpaceJoin(row) ==
    IF row = <<>> THEN S("") ELSE [t |-> "fstr", k |-> "words", parts |-> row]

\* Lines 305-312: the temperature of the label; float() of a value that is
\* no number raises inside the try and the component is dropped.
label_temp(main, settings) ==
    IF Has(main, "temp") /\ Truthy(main.temp) /\ IsNumber(main.temp)
    THEN <<TempText(main.temp, degrees[settings["units"].v])>>
    ELSE <<>>

\* Lines 298-303: the location name of the label.
label_name(weather, settings) ==
    IF Has(weather, "name") /\ Truthy(settings["show-name"])
    THEN <<IF ~Truthy(settings["loc-name"]) THEN weather.name
           ELSE settings["loc-name"]>>
    ELSE <<>>

\* What update_widget leaves behind: the exception that escapes it (None
\* when it returns), the lines printed to standard output, and id, label
\* and popup as they are when it returns or raises.
Widget(exc, out, id, label, popup) ==
    [exc |-> exc, out |-> out, id |-> id, label |-> label, popup |-> popup]

\* Lines 314-315: the label is assigned, then the popup; an exception of
\* display_popup leaves the popup as it was.
WithPopup(pop, newId, newLabel, popup) ==
    IF IsExc(pop.exc) THEN Widget(pop.exc, pop.out, newId, newLabel, popup)
    ELSE Widget(None, pop.out, newId, newLabel, pop.ret)

update_widget_resets(weather, forecast, settings, lang, forecast_file, id, label, popup) ==
    IF ~Truthy(weather) \/ ~Has(weather, "cod") \/ ~CodSuccess(weather.cod)
    THEN Widget(None, <<>>, I(800), S(""), S(""))
    ELSE WithPopup(display_popup(weather, forecast, settings, lang,
                                 forecast_file),
                   id, label, popup)

update_widget(weather, forecast, settings, lang, forecast_file, id, label, popup) ==
    IF ~Truthy(weather) THEN Widget(None, <<>>, id, label, popup)
    ELSE IF ~Has(weather, "cod")
         THEN Widget(Raise("KeyError"), <<>>, id, label, popup)
    ELSE IF ~(Truthy(weather.cod) /\ CodSuccess(weather.cod))
         THEN Widget(None, <<>>, id, label, popup)
    ELSE IF ~Has(weather, "weather")
         THEN Widget(Raise("KeyError"), <<>>, id, label, popup)
    ELSE IF weather.weather = <<>>
         THEN Widget(Raise("IndexError"), <<>>, id, label, popup)
    ELSE
      LET hasId == Has(weather.weather[1], "id")
          newId == IF hasId THEN weather.weather[1].id ELSE id
          icon == IF hasId THEN <<get_icon(newId)>> ELSE <<>>
      IN  IF ~Has(weather, "main")
          THEN Widget(Raise("KeyError"), <<>>, newId, label, popup)
          ELSE IF Has(weather.main, "temp") /\ Truthy(weather.main.temp)
                  /\ ~Has(degrees, settings["units"].v)
          THEN Widget(Raise("KeyError"), <<>>, newId, label, popup)
          ELSE
            WithPopup(display_popup(weather, forecast, settings, lang,
                                    forecast_file),
                      newId,
                      SpaceJoin(icon \o label_name(weather, settings)
                                     \o label_temp(weather.main, settings)),
                      popup)

----------------------------------------------------------------------------
(* main *)

ShowNames ==
    <<"name", "humidity", "wind", "pressure", "cloudiness", "visibilty",
      "pop", "volume">>

ShowFlags == {"show_" \o ShowNames[i] : i \in DOMAIN ShowNames}

\* kwargs.get(key, default)
Get(kwargs, key, default) == IF Has(kwargs, key) THEN kwargs[key] ELSE default

\* Lines 535-562: the settings main builds from its keyword arguments.
main_settings(kwargs) ==
    EmptyDict @@
    [k \in {"popup-text-size"} |-> S("medium")] @@
    [k \in {"popup-forecast-size"} |-> S("small")] @@
    [k \in {"interval"} |-> I(1800)] @@
    [k \in {"loc-name"} |-> Get(kwargs, "city_name", S(""))] @@
    [k \in {"appid"} |-> Get(kwargs, "appid", S(""))] @@
    [k \in {"lat"} |-> Get(kwargs, "lat", F(0))] @@
    [k \in {"long"} |-> Get(kwargs, "lon", F(0))] @@
    [k \in {"lang"} |-> Get(kwargs, "lang", S("fr"))] @@
    [k \in {"units"} |-> Get(kwargs, "units", S("metric"))] @@
    [k \in {"show-" \o ShowNames[i] : i \in DOMAIN ShowNames} |->
        LET n == CHOOSE i \in DOMAIN ShowNames : k = "show-" \o ShowNames[i]
        IN  Get(kwargs, "show_" \o ShowNames[n], B(FALSE))]

VocKeys ==
    {"feels-like", "humidity", "pressure", "wind", "gust", "cloudiness",
     "visibility"}

\* The vocabulary of fr_FR.json or en_US.json.
Vocabulary(file) == EmptyDict @@ [k \in VocKeys |-> S(file \o ":" \o k)]

\* Lines 563-567
voc(settings) ==
    Vocabulary(IF settings["lang"] = S("fr") THEN "fr_FR" ELSE "en_US")

\* json.dumps({"text": label, "alt": label, "tooltip": popup})
JsonLine(text, alt, tooltip) ==
    [t |-> "fstr", k |-> "json", text |-> text, alt |-> alt,
     tooltip |-> tooltip]

----------------------------------------------------------------------------
(* The state of one run *)

VARIABLES
    pc,             \* where the run is
    entry,          \* "main": the command line; "direct": a host that
                    \* constructs OpenWeather itself and polls get_data
    kwargs,         \* the parsed command line handed to main
    supplied,       \* the settings as the caller handed them to OpenWeather
    settings,       \* self.settings
    ki,             \* the constructor's place in "for key in defaults"
    lang,           \* self.lang
    weather,        \* self.weather
    forecast,       \* self.forecast
    weather_file,   \* the file at self.weather_file
    forecast_file,  \* the file at self.forecast_file
    weather_request,    \* self.weather_request
    forecast_request,   \* self.forecast_request
    now,            \* time.time()
    id,             \* self.id
    label,          \* self.label
    popup,          \* self.popup
    stdout,         \* the lines written to standard output
    stderr,         \* the diagnostics written to the error stream
    net,            \* the HTTP exchanges of the current get_data call
    exc,            \* the exception that escaped, None if none
    polls,          \* how many more times the host will call get_data
    arg,            \* the argument of a helper called on its own
    ret,            \* and what it returned
    task,           \* the thread of create_background_task
    inv             \* the invocations that run side by side on one cache

vars ==
    <<pc, entry, kwargs, supplied, settings, ki, lang, weather, forecast,
      weather_file, forecast_file, weather_request, forecast_request, now,
      id, label, popup, stdout, stderr, net, exc, polls, arg, ret, task, inv>>

NoExchange == [requested |-> FALSE, resp |-> NetError, writable |-> FALSE]
Exchange(resp, writable) ==
    [requested |-> TRUE, resp |-> resp, writable |-> writable]

----------------------------------------------------------------------------
(* The inputs of the model *)

\* d without key k
Without(d, k) == [x \in DOMAIN d \ {k} |-> d[x]]

\* d with key k set to v
With(d, k, v) == [x \in DOMAIN d \cup {k} |-> IF x = k THEN v ELSE d[x]]

Dict(d) == EmptyDict @@ d

WeatherFull ==
    [t |-> "dict", cod |-> I(200), name |-> S("Testville"),
     weather |-> <<[t |-> "dict", id |-> I(800),
                    description |-> S("clear sky")]>>,
     main |-> [t |-> "dict", temp |-> F(20000), feels_like |-> F(19300),
               humidity |-> I(50), pressure |-> I(1013)],
     wind |-> [t |-> "dict", speed |-> F(3500), deg |-> I(293),
               gust |-> F(5000)],
     clouds |-> [t |-> "dict", all |-> I(40)],
     visibility |-> I(8999),
     sys |-> [t |-> "dict", country |-> S("FR"), sunrise |-> I(21600),
              sunset |-> I(64800)]]

EntryFull(dt) ==
    [t |-> "dict", dt |-> I(dt),
     main |-> [t |-> "dict", temp |-> F(1200), feels_like |-> F(3400),
               humidity |-> I(40), pressure |-> I(1000)],
     weather |-> <<[t |-> "dict", id |-> I(500),
                    description |-> S("light rain")]>>,
     wind |-> [t |-> "dict", speed |-> F(2500), deg |-> I(180),
               gust |-> F(4000)],
     clouds |-> [t |-> "dict", all |-> I(75)],
     visibility |-> I(8000),
     pop |-> F(500),
     rain |-> Dict("3h" :> F(1234)),
     snow |-> Dict("3h" :> F(500))]

\* An entry with nothing but what every provider entry carries.
EntryBare(dt) ==
    [t |-> "dict", dt |-> I(dt),
     main |-> [t |-> "dict", temp |-> F(1200), feels_like |-> F(3400)],
     weather |-> <<[t |-> "dict", id |-> I(500),
                    description |-> S("light rain")]>>]

ThreeHours == 3 * 3600

Forecast(cod, list) == [t |-> "dict", cod |-> cod, list |-> list]

ForecastFull ==
    Forecast(S("200"), <<EntryFull(SecondsPerDay - ThreeHours),
                         EntryFull(SecondsPerDay)>>)

ErrorBody(cod) == [t |-> "dict", cod |-> cod, message |-> S("error")]

\* What the provider (or the network) may answer to a request.
FailedReplies ==
    {NetError, Reply(Garbage), Reply([t |-> "list", v |-> <<>>]),
     Reply([t |-> "dict", message |-> S("no cod")])}

RefusedReplies == {Reply(ErrorBody(I(401))), Reply(ErrorBody(S("404")))}

WeatherReplies ==
    FailedReplies \cup RefusedReplies
        \cup {Reply(WeatherFull), Reply([WeatherFull EXCEPT !.cod = S("200")])}

ForecastReplies ==
    FailedReplies \cup RefusedReplies
        \cup {Reply(ForecastFull),
              Reply([ForecastFull EXCEPT !.cod = I(200)])}

----------------------------------------------------------------------------
(* The steps of a run *)

\* main, lines 535-567: the settings and the vocabulary.
Main ==
    /\ pc = "main"
    /\ supplied' = main_settings(kwargs)
    /\ settings' = main_settings(kwargs)
    /\ lang' = voc(main_settings(kwargs))
    /\ pc' = "init"
    /\ UNCHANGED <<task, inv, entry, kwargs, ki, weather, forecast, weather_file,
                   forecast_file, weather_request, forecast_request, now, id,
                   label, popup, stdout, stderr, net, exc, polls, arg, ret>>

\* OpenWeather.__init__, lines 202-203: one turn of the loop over defaults.
InitDefault ==
    /\ pc = "init"
    /\ ki <= Len(DefaultKeys)
    /\ settings' = check_key(settings, DefaultKeys[ki],
                             defaults[DefaultKeys[ki]])
    /\ ki' = ki + 1
    /\ UNCHANGED <<task, inv, pc, entry, kwargs, supplied, lang, weather, forecast,
                   weather_file, forecast_file, weather_request,
                   forecast_request, now, id, label, popup, stdout, stderr,
                   net, exc, polls, arg, ret>>

\* OpenWeather.__init__, lines 205-248.
InitFinish ==
    /\ pc = "init"
    /\ ki > Len(DefaultKeys)
    /\ settings' = coordinates(settings)
    /\ weather' = None
    /\ forecast' = None
    /\ stderr' = stderr \o <<S("Weather file"), S("Forecast file")>>
                   \o (IF ~Truthy(settings["lat"])
                          \/ ~Truthy(settings["long"])
                       THEN <<S("Coordinates not set")>> ELSE <<>>)
                   \o <<S("Latitude"), S("Longitude")>>
    /\ weather_request' = RequestUrl("weather", coordinates(settings))
    /\ forecast_request' = RequestUrl("forecast", coordinates(settings))
    /\ id' = I(800)
    /\ label' = S("")
    /\ popup' = S("")
    /\ pc' = "ready"
    /\ UNCHANGED <<task, inv, entry, kwargs, supplied, ki, lang, weather_file,
                   forecast_file, now, stdout, net, exc, polls, arg, ret>>

\* get_data, line 251: get_weather.  The reply and whether the cache file
\* can be written are the environment's; they are left at NetError / FALSE
\* when the call does not use them.
GetWeather ==
    /\ pc = "ready"
    /\ \E resp \in WeatherReplies, writable \in BOOLEAN :
         LET r == fetch("weather", weather, weather_file, settings, now,
                        resp, writable)
         IN  /\ ~r.requested => resp = NetError
             /\ ~r.requested => ~writable
             /\ weather' = r.snapshot
             /\ weather_file' = r.file
             /\ stderr' = stderr \o r.log
             /\ net' = [weather |-> IF r.requested
                                    THEN Exchange(resp, writable)
                                    ELSE NoExchange,
                        forecast |-> NoExchange]
    /\ pc' = "weather_done"
    /\ UNCHANGED <<task, inv, entry, kwargs, supplied, settings, ki, lang, forecast,
                   forecast_file, weather_request, forecast_request, now, id,
                   label, popup, stdout, exc, polls, arg, ret>>

\* get_data, line 252: get_forecast.
GetForecast ==
    /\ pc = "weather_done"
    /\ \E resp \in ForecastReplies, writable \in BOOLEAN :
         LET r == fetch("forecast", forecast, forecast_file, settings, now,
                        resp, writable)
         IN  /\ ~r.requested => resp = NetError
             /\ ~r.requested => ~writable
             /\ forecast' = r.snapshot
             /\ forecast_file' = r.file
             /\ stderr' = stderr \o r.log
             /\ net' = [net EXCEPT !.forecast =
                          IF r.requested THEN Exchange(resp, writable)
                          ELSE NoExchange]
    /\ pc' = "forecast_done"
    /\ UNCHANGED <<task, inv, entry, kwargs, supplied, settings, ki, lang, weather,
                   weather_file, weather_request, forecast_request, now, id,
                   label, popup, stdout, exc, polls, arg, ret>>

\* get_data, line 253: update_widget.  An exception it raises escapes
\* get_data, and main, which handles SystemExit only.
UpdateWidget ==
    /\ pc = "forecast_done"
    /\ \E w \in {update_widget(weather, forecast, settings, lang,
                              forecast_file, id, label, popup)} :
           /\ id' = w.id
           /\ label' = w.label
           /\ popup' = w.popup
           /\ stdout' = stdout \o w.out
           /\ exc' = w.exc
           /\ pc' = IF IsExc(w.exc) THEN "raised" ELSE "updated"
    /\ UNCHANGED <<task, inv, entry, kwargs, supplied, settings, ki, lang, weather,
                   forecast, weather_file, forecast_file, weather_request,
                   forecast_request, now, stderr, net, polls, arg, ret>>

\* main, lines 570-574: the result.
PrintResult ==
    /\ pc = "updated"
    /\ entry = "main"
    /\ stdout' = Append(stdout, JsonLine(label, label, popup))
    /\ pc' = "done"
    /\ UNCHANGED <<task, inv, entry, kwargs, supplied, settings, ki, lang, weather,
                   forecast, weather_file, forecast_file, weather_request,
                   forecast_request, now, id, label, popup, stderr, net, exc,
                   polls, arg, ret>>

\* A host that holds the object calls get_data again, a second or a whole
\* interval later.
Poll ==
    /\ pc = "updated"
    /\ entry = "direct"
    /\ polls > 0
    /\ polls' = polls - 1
    /\ \E d \in {1, settings["interval"].v} : now' = now + d
    /\ pc' = "ready"
    /\ UNCHANGED <<task, inv, entry, kwargs, supplied, settings, ki, lang, weather,
                   forecast, weather_file, forecast_file, weather_request,
                   forecast_request, id, label, popup, stdout, stderr, net,
                   exc, arg, ret>>

Next ==
    \/ Main
    \/ InitDefault
    \/ InitFinish
    \/ GetWeather
    \/ GetForecast
    \/ UpdateWidget
    \/ PrintResult
    \/ Poll

----------------------------------------------------------------------------
(* The initial states: the command line or the caller's settings, the      *)
(* cache files as earlier runs left them, and the clock.                   *)

\* The time of the first call, and how often a host polls after it.
StartTime == 100000
MaxPolls == 1

\* vars(args): argparse gives every option a value.
Kwargs(lat, lon, lng, units, shown) ==
    EmptyDict @@ [k \in {"appid"} |-> S("key")] @@ [k \in {"lat"} |-> lat] @@
    [k \in {"lon"} |-> lon] @@ [k \in {"lang"} |-> lng] @@
    [k \in {"units"} |-> units] @@ [k \in ShowFlags |-> B(k \in shown)]

KwBase == Kwargs(DefaultLat, DefaultLong, S("fr"), S("metric"), {})

\* A cache file of every age around the staleness threshold of the default
\* interval, holding content or a text that does not parse.
CacheAges == {0, 1799, 1800, 3600}

CacheStates(content) ==
    {NoFile} \cup {File(StartTime - a, c) :
                       a \in CacheAges, c \in {content, Garbage}}

Fresh(content) == File(StartTime - 10, content)

Start(e, kw, sup, wf, ff, p) ==
    /\ entry = e
    /\ kwargs = kw
    /\ supplied = sup
    /\ settings = sup
    /\ pc = IF e = "main" THEN "main" ELSE "init"
    /\ ki = 1
    /\ lang = IF e = "main" THEN None ELSE Vocabulary("en_US")
    /\ weather = None
    /\ forecast = None
    /\ weather_file = wf
    /\ forecast_file = ff
    /\ weather_request = None
    /\ forecast_request = None
    /\ now = StartTime
    /\ id = None
    /\ label = None
    /\ popup = None
    /\ stdout = <<>>
    /\ stderr = <<>>
    /\ net = [weather |-> NoExchange, forecast |-> NoExchange]
    /\ exc = None
    /\ polls = p
    /\ arg = None
    /\ ret = None
    /\ task = None
    /\ inv = None

\* The command line with every state of the two cache files; a polling
\* host that starts without or with fresh cache files.
InitFetch ==
    \/ \E wf \in CacheStates(WeatherFull), ff \in CacheStates(ForecastFull) :
         Start("main", KwBase, None, wf, ff, 0)
    \/ \E wf \in {NoFile, Fresh(WeatherFull)},
          ff \in {NoFile, Fresh(ForecastFull)} :
         Start("direct", None, EmptyDict, wf, ff, MaxPolls)

\* Weather snapshots that differ in what the label is made of.
LabelTemps ==
    {F(20000), F(15456), F(-3270), F(250), I(7), I(0), F(0), S("n/a")}

LabelWeathers ==
    LET base == {WeatherFull, Without(WeatherFull, "name"),
                 [WeatherFull EXCEPT !.weather[1].id = I(511)],
                 [WeatherFull EXCEPT !.weather[1].id = I(999)],
                 [WeatherFull EXCEPT
                    !.weather[1] = Without(WeatherFull.weather[1], "id")]}
    IN  {[w EXCEPT !.main.temp = x] : w \in base, x \in LabelTemps}
        \cup {[w EXCEPT !.main = Without(w.main, "temp")] : w \in base}

InitLabel ==
    \E w \in LabelWeathers :
        \/ \E units \in {S("metric"), S("imperial")},
              shown \in {{}, {"show_name"}} :
             Start("main", Kwargs(DefaultLat, DefaultLong, S("en"), units,
                                  shown),
                   None, Fresh(w), Fresh(ForecastFull), 0)
        \/ \E sup \in {Dict("show-name" :> B(TRUE)),
                       Dict("show-name" :> B(TRUE) @@ "loc-name" :> S("")),
                       Dict("show-name" :> B(TRUE) @@ "loc-name" :> S("Home")
                            @@ "units" :> S("standard"))} :
             Start("direct", None, sup, Fresh(w), Fresh(ForecastFull), 0)

\* Forecast entries that differ in the optional fields they carry.
PopupEntries ==
    {EntryFull(0), EntryBare(0),
     [EntryFull(0) EXCEPT !.pop = I(0), !.main.humidity = I(0)],
     Without(Without(EntryFull(0), "wind"), "rain")}

InitPopup ==
    \E e \in PopupEntries :
        \/ \E shown \in SUBSET ShowFlags :
             Start("main", Kwargs(DefaultLat, DefaultLong, S("en"),
                                  S("metric"), shown),
                   None, Fresh(WeatherFull),
                   Fresh(Forecast(I(200), <<e, EntryFull(ThreeHours)>>)), 0)
        \/ \E sup \in {Dict("show-visibility" :> B(TRUE)),
                       Dict("show-visibilty" :> B(TRUE))} :
             Start("direct", None, sup, Fresh(WeatherFull),
                   Fresh(Forecast(I(200), <<e>>)), 0)

\* Coordinates as a command line or a caller may give them.
CliCoords == {F(0), Coord(455000000), DefaultLat}
CallerCoords == {I(0), F(0), None, S(""), Coord(455000000)}

InitCoords ==
    \/ \E lat \in CliCoords, lon \in CliCoords,
          units \in {S("metric"), S("imperial")} :
         Start("main", Kwargs(lat, lon, S("fr"), units, {}), None,
               NoFile, NoFile, 0)
    \/ \E lat \in CallerCoords, lon \in CallerCoords :
         Start("direct", None, Dict("lat" :> lat @@ "long" :> lon),
               NoFile, NoFile, 0)
    \/ \E c \in CallerCoords, k \in {"lat", "long"} :
         Start("direct", None,
               Dict(k :> c @@ "units" :> S("imperial")
                    @@ "interval" :> I(600)),
               NoFile, NoFile, 0)

Init == InitFetch \/ InitLabel \/ InitPopup \/ InitCoords

Spec == Init /\ [][Next]_vars

----------------------------------------------------------------------------
(* direction called on its own, on every whole degree of the compass *)

MaxDegree == 360

InitDirection ==
    /\ pc = "direction"
    /\ arg \in {I(d) : d \in 0..MaxDegree}
    /\ ret = None
    /\ entry = "helper"
    /\ kwargs = None /\ supplied = None /\ settings = None /\ ki = 1
    /\ lang = None /\ weather = None /\ forecast = None
    /\ weather_file = NoFile /\ forecast_file = NoFile
    /\ weather_request = None /\ forecast_request = None
    /\ now = StartTime
    /\ id = None /\ label = None /\ popup = None
    /\ stdout = <<>> /\ stderr = <<>>
    /\ net = [weather |-> NoExchange, forecast |-> NoExchange]
    /\ exc = None
    /\ polls = 0
    /\ task = None
    /\ inv = None

Direction ==
    /\ pc = "direction"
    /\ ret' = S(direction(arg.v))
    /\ pc' = "returned"
    /\ UNCHANGED <<task, inv, entry, kwargs, supplied, settings, ki, lang, weather,
                   forecast, weather_file, forecast_file, weather_request,
                   forecast_request, now, id, label, popup, stdout, stderr,
                   net, exc, polls, arg>>

NextDirection == Direction

SpecDirection == InitDirection /\ [][NextDirection]_vars

----------------------------------------------------------------------------
(* display_popup called on its own, on success snapshots: forecast lists   *)
(* around the cap of the loop, and snapshots that lack optional fields.    *)

\* The longest forecast list.
MaxEntries == 34

\* n entries three hours apart from the time start on, every other one
\* with all the optional fields.
Entries(n, start) ==
    [i \in 1..n |-> IF i % 2 = 1 THEN EntryFull(start + (i - 1) * ThreeHours)
                    ELSE EntryBare(start + (i - 1) * ThreeHours)]

\* The settings of a constructor called with the toggles shown on.
Toggled(shown) ==
    [k \in DOMAIN defaults |-> IF k \in shown THEN B(TRUE) ELSE defaults[k]]

Toggles ==
    {"show-humidity", "show-wind", "show-pressure", "show-cloudiness",
     "show-visibility", "show-pop", "show-volume"}

\* Success weather snapshots that lack an optional field, or carry it falsy.
SparseWeathers ==
    {WeatherFull, Without(WeatherFull, "sys"), Without(WeatherFull, "wind"),
     Without(WeatherFull, "visibility"), Without(WeatherFull, "clouds"),
     [WeatherFull EXCEPT !.main = Without(WeatherFull.main, "feels_like")],
     [WeatherFull EXCEPT !.main.temp = I(0)],
     [WeatherFull EXCEPT !.sys = Without(WeatherFull.sys, "country")],
     [WeatherFull EXCEPT !.sys.sunrise = I(0)],
     [WeatherFull EXCEPT
        !.weather[1] = Without(WeatherFull.weather[1], "description")]}

\* Forecast entries that lack an optional field, or carry it falsy.
SparseEntries ==
    {EntryFull(0), EntryBare(0), Without(EntryFull(0), "wind"),
     Without(EntryFull(0), "visibility"), Without(EntryFull(0), "weather"),
     [EntryFull(0) EXCEPT !.main = Without(EntryFull(0).main, "feels_like")],
     [EntryFull(0) EXCEPT !.main.temp = I(0)],
     [EntryFull(0) EXCEPT !.main.feels_like = F(0)],
     [EntryBare(0) EXCEPT !.main = Without(EntryBare(0).main, "temp")]}

PopupCall(w, f, st, ff) ==
    /\ pc = "display_popup"
    /\ entry = "helper"
    /\ weather = w
    /\ forecast = f
    /\ settings = st
    /\ lang = Vocabulary("en_US")
    /\ forecast_file = ff
    /\ weather_file = NoFile
    /\ kwargs = None /\ supplied = None /\ ki = 1
    /\ weather_request = None /\ forecast_request = None
    /\ now = StartTime
    /\ id = I(800) /\ label = S("") /\ popup = S("")
    /\ stdout = <<>> /\ stderr = <<>>
    /\ net = [weather |-> NoExchange, forecast |-> NoExchange]
    /\ exc = None
    /\ polls = 0
    /\ arg = None /\ ret = None
    /\ task = None /\ inv = None

InitDisplayPopup ==
    \/ \E n \in 0..MaxEntries, start \in {0, ThreeHours, 5 * ThreeHours},
          shown \in {{}, Toggles} :
         PopupCall(WeatherFull, Forecast(I(200), Entries(n, start)),
                   Toggled(shown), NoFile)
    \/ \E w \in SparseWeathers, e \in SparseEntries :
         PopupCall(w, Forecast(S("200"), <<e>>), Toggled(Toggles),
                   Fresh(ForecastFull))

DisplayPopup ==
    /\ pc = "display_popup"
    /\ \E o \in {display_popup(weather, forecast, settings, lang,
                               forecast_file)} :
           /\ ret' = o.ret
           /\ exc' = o.exc
           /\ stdout' = stdout \o o.out
    /\ pc' = "returned"
    /\ UNCHANGED <<task, inv, entry, kwargs, supplied, settings, ki, lang,
                   weather, forecast, weather_file, forecast_file,
                   weather_request, forecast_request, now, id, label, popup,
                   stderr, net, polls, arg>>

NextDisplayPopup == DisplayPopup

SpecDisplayPopup == InitDisplayPopup /\ [][NextDisplayPopup]_vars

----------------------------------------------------------------------------
(* tools.py: create_background_task and the thread it returns *)

\* The count of the target's invocations is kept up to MaxCalls.
MaxCalls == 5

\* The intervals and keyword arguments a caller may pass.
Intervals == {-1, 0, 1, 2, 1800}
TaskKwargs == {None, EmptyDict, Dict("widget" :> S("owm"))}

repeats_unless_negative(interval) == interval >= 0

\* "if interval > 0" of loop_wrapper
repeats(interval) == interval > 0

\* threading.Thread(target=loop_wrapper, daemon=True): the thread at is
\* where loop_wrapper stands, calls how often the target has been invoked,
\* passed the keyword arguments of its last invocation.
Thread(interval, kw) ==
    [t |-> "thread", daemon |-> TRUE, started |-> FALSE, at |-> "idle",
     interval |-> interval, kwargs |-> kw, calls |-> 0, passed |-> None]

Invoked(th) ==
    [th EXCEPT !.calls = IF @ < MaxCalls THEN @ + 1 ELSE @,
               !.passed = th.kwargs]

InitTask ==
    /\ pc = "create_background_task"
    /\ arg \in [interval : Intervals, kwargs : TaskKwargs]
    /\ task = None
    /\ entry = "helper"
    /\ kwargs = None /\ supplied = None /\ settings = None /\ ki = 1
    /\ lang = None /\ weather = None /\ forecast = None
    /\ weather_file = NoFile /\ forecast_file = NoFile
    /\ weather_request = None /\ forecast_request = None
    /\ now = StartTime
    /\ id = None /\ label = None /\ popup = None
    /\ stdout = <<>> /\ stderr = <<>>
    /\ net = [weather |-> NoExchange, forecast |-> NoExchange]
    /\ exc = None
    /\ polls = 0
    /\ ret = None
    /\ inv = None

\* Lines 178-191: the call returns the thread, not started.
CreateBackgroundTask ==
    /\ pc = "create_background_task"
    /\ task' = Thread(arg.interval,
                      IF arg.kwargs = None THEN EmptyDict ELSE arg.kwargs)
    /\ ret' = [t |-> "thread"]
    /\ pc' = "returned"
    /\ UNCHANGED <<inv, entry, kwargs, supplied, settings, ki, lang, weather,
                   forecast, weather_file, forecast_file, weather_request,
                   forecast_request, now, id, label, popup, stdout, stderr,
                   net, exc, polls, arg>>

\* The caller starts the thread it was given: loop_wrapper begins.
StartThread ==
    /\ pc = "returned"
    /\ ~task.started
    /\ task' = [task EXCEPT !.started = TRUE, !.at = "loop_wrapper"]
    /\ pc' = "started"
    /\ UNCHANGED <<inv, entry, kwargs, supplied, settings, ki, lang, weather,
                   forecast, weather_file, forecast_file, weather_request,
                   forecast_request, now, id, label, popup, stdout, stderr,
                   net, exc, polls, arg, ret>>

\* Line 183
LoopTest ==
    /\ pc = "started" /\ task.at = "loop_wrapper"
    /\ task' = [task EXCEPT !.at = IF repeats(task.interval) THEN "while"
                                   ELSE "once"]
    /\ UNCHANGED <<inv, pc, entry, kwargs, supplied, settings, ki, lang,
                   weather, forecast, weather_file, forecast_file,
                   weather_request, forecast_request, now, id, label, popup,
                   stdout, stderr, net, exc, polls, arg, ret>>

\* Lines 184-185: a turn of "while True" invokes the target.
TargetLoop ==
    /\ pc = "started" /\ task.at = "while"
    /\ task' = [Invoked(task) EXCEPT !.at = "sleep"]
    /\ UNCHANGED <<inv, pc, entry, kwargs, supplied, settings, ki, lang,
                   weather, forecast, weather_file, forecast_file,
                   weather_request, forecast_request, now, id, label, popup,
                   stdout, stderr, net, exc, polls, arg, ret>>

\* Line 186: time.sleep(interval) returns and the loop goes round.
Sleep ==
    /\ pc = "started" /\ task.at = "sleep"
    /\ task' = [task EXCEPT !.at = "while"]
    /\ UNCHANGED <<inv, pc, entry, kwargs, supplied, settings, ki, lang,
                   weather, forecast, weather_file, forecast_file,
                   weather_request, forecast_request, now, id, label, popup,
                   stdout, stderr, net, exc, polls, arg, ret>>

\* Line 188: the target is invoked once, loop_wrapper returns and the
\* thread ends.
TargetOnce ==
    /\ pc = "started" /\ task.at = "once"
    /\ task' = [Invoked(task) EXCEPT !.at = "ended"]
    /\ UNCHANGED <<inv, pc, entry, kwargs, supplied, settings, ki, lang,
                   weather, forecast, weather_file, forecast_file,
                   weather_request, forecast_request, now, id, label, popup,
                   stdout, stderr, net, exc, polls, arg, ret>>

\* The steps of the thread itself.
ThreadStep == LoopTest \/ TargetLoop \/ Sleep \/ TargetOnce

NextTask ==
    \/ CreateBackgroundTask
    \/ StartThread
    \/ LoopTest
    \/ TargetLoop
    \/ Sleep
    \/ TargetOnce

\* A thread that has been started is scheduled again and again, and the
\* target and time.sleep return.
SpecTask == InitTask /\ [][NextTask]_vars /\ WF_vars(ThreadStep)

----------------------------------------------------------------------------
(* Two runs of main for one module id, side by side on the same two cache  *)
(* files.  Nothing orders the steps of one run against the other's: the    *)
(* test of the file, the request, open(path, "w"), which empties the file, *)
(* json.dump and the close, which fill it, and load_json.                  *)

Invocations == 1..2

\* A run: the fetch it is in and where it stands in it, what self holds,
\* what it printed, how many requests it issued, and whether it loaded a
\* file that another run had opened for writing and not yet filled.
Invocation ==
    [phase |-> "weather", at |-> "check", weather |-> None,
     forecast |-> None, id |-> I(800), label |-> S(""), popup |-> S(""),
     exc |-> None, out |-> <<>>, fetched |-> 0, torn |-> FALSE]

\* The cache file of the fetch a run is in.
FileOf(phase) == IF phase = "weather" THEN weather_file ELSE forecast_file

\* The provider answers every request with a success response.
RaceReplies(phase) ==
    IF phase = "weather" THEN {Reply(WeatherFull)} ELSE {Reply(ForecastFull)}

\* get_data: after get_weather comes get_forecast, then update_widget.
NextPhase(r) ==
    IF r.phase = "weather" THEN [r EXCEPT !.phase = "forecast", !.at = "check"]
    ELSE [r EXCEPT !.at = "update_widget"]

\* The cache files a run may find: none, a stale one, a fresh one, each
\* complete.
RaceFiles(content) ==
    {NoFile, File(StartTime - 3600, content), Fresh(content)}

InitRace ==
    /\ pc = "race"
    /\ entry = "main"
    /\ inv = [p \in Invocations |-> Invocation]
    /\ weather_file \in RaceFiles(WeatherFull)
    /\ forecast_file \in RaceFiles(ForecastFull)
    /\ settings = coordinates(defaults)
    /\ lang = Vocabulary("fr_FR")
    /\ now = StartTime
    /\ kwargs = None /\ supplied = None /\ ki = 1
    /\ weather = None /\ forecast = None
    /\ weather_request = None /\ forecast_request = None
    /\ id = None /\ label = None /\ popup = None
    /\ stdout = <<>> /\ stderr = <<>>
    /\ net = [weather |-> NoExchange, forecast |-> NoExchange]
    /\ exc = None
    /\ polls = 0
    /\ arg = None /\ ret = None
    /\ task = None

\* Lines 256-258 and 268: the test of the cache file.
RaceCheck ==
    /\ \E p \in Invocations :
         /\ inv[p].at = "check"
         /\ inv' = [inv EXCEPT ![p] =
                      IF must_request(FileOf(@.phase), settings, now)
                      THEN [@ EXCEPT !.at = "request"]
                      ELSE IF ~Truthy(@[@.phase])
                           THEN [@ EXCEPT !.at = "load"]
                      ELSE NextPhase(@)]
    /\ UNCHANGED <<task, pc, entry, kwargs, supplied, settings, ki, lang,
                   weather, forecast, weather_file, forecast_file,
                   weather_request, forecast_request, now, id, label, popup,
                   stdout, stderr, net, exc, polls, arg, ret>>

\* Lines 260-263: the request, the parse and the test of cod.
RaceRequest ==
    /\ \E p \in Invocations : \E resp \in RaceReplies(inv[p].phase) :
         /\ inv[p].at = "request"
         /\ inv' = [inv EXCEPT ![p] =
                      IF requested_snapshot(resp) # None
                            /\ CodSuccess(requested_snapshot(resp).cod)
                      THEN [@ EXCEPT
                              ![inv[p].phase] = requested_snapshot(resp),
                              !.fetched = @ + 1, !.at = "open"]
                      ELSE NextPhase([@ EXCEPT
                              ![inv[p].phase] = requested_snapshot(resp),
                              !.fetched = @ + 1])]
    /\ UNCHANGED <<task, pc, entry, kwargs, supplied, settings, ki, lang,
                   weather, forecast, weather_file, forecast_file,
                   weather_request, forecast_request, now, id, label, popup,
                   stdout, stderr, net, exc, polls, arg, ret>>

\* save_json, line 118: open(path, "w") leaves the file empty.
RaceOpen ==
    /\ \E p \in Invocations :
         /\ inv[p].at = "open"
         /\ weather_file' = IF inv[p].phase = "weather"
                            THEN File(now, Garbage) ELSE weather_file
         /\ forecast_file' = IF inv[p].phase = "forecast"
                             THEN File(now, Garbage) ELSE forecast_file
         /\ inv' = [inv EXCEPT ![p].at = "dump"]
    /\ UNCHANGED <<task, pc, entry, kwargs, supplied, settings, ki, lang,
                   weather, forecast, weather_request, forecast_request, now,
                   id, label, popup, stdout, stderr, net, exc, polls, arg,
                   ret>>

\* save_json, line 119 and the end of the with block: the text is written
\* out and the file is closed.
RaceDump ==
    /\ \E p \in Invocations :
         /\ inv[p].at = "dump"
         /\ weather_file' = IF inv[p].phase = "weather"
                            THEN File(now, inv[p].weather) ELSE weather_file
         /\ forecast_file' = IF inv[p].phase = "forecast"
                             THEN File(now, inv[p].forecast)
                             ELSE forecast_file
         /\ inv' = [inv EXCEPT ![p] = NextPhase(@)]
    /\ UNCHANGED <<task, pc, entry, kwargs, supplied, settings, ki, lang,
                   weather, forecast, weather_request, forecast_request, now,
                   id, label, popup, stdout, stderr, net, exc, polls, arg,
                   ret>>

\* Lines 268-270: load_json of the cache file.
RaceLoad ==
    /\ \E p \in Invocations :
         /\ inv[p].at = "load"
         /\ inv' = [inv EXCEPT ![p] =
                      NextPhase([@ EXCEPT
                          ![inv[p].phase] = load_json(FileOf(inv[p].phase)),
                          !.torn = @ \/ FileOf(inv[p].phase).content
                                           = Garbage])]
    /\ UNCHANGED <<task, pc, entry, kwargs, supplied, settings, ki, lang,
                   weather, forecast, weather_file, forecast_file,
                   weather_request, forecast_request, now, id, label, popup,
                   stdout, stderr, net, exc, polls, arg, ret>>

\* get_data, line 253: update_widget.
RaceUpdate ==
    /\ \E p \in Invocations :
         /\ inv[p].at = "update_widget"
         /\ \E w \in {update_widget(inv[p].weather, inv[p].forecast, settings,
                                    lang, forecast_file, inv[p].id,
                                    inv[p].label, inv[p].popup)} :
              inv' = [inv EXCEPT ![p].id = w.id, ![p].label = w.label,
                                 ![p].popup = w.popup, ![p].exc = w.exc,
                                 ![p].out = @ \o w.out,
                                 ![p].at = IF IsExc(w.exc) THEN "raised"
                                           ELSE "print"]
    /\ UNCHANGED <<task, pc, entry, kwargs, supplied, settings, ki, lang,
                   weather, forecast, weather_file, forecast_file,
                   weather_request, forecast_request, now, id, label, popup,
                   stdout, stderr, net, exc, polls, arg, ret>>

\* main, lines 570-574: the result.
RacePrint ==
    /\ \E p \in Invocations :
         /\ inv[p].at = "print"
         /\ inv' = [inv EXCEPT ![p].out =
                        Append(@, JsonLine(inv[p].label, inv[p].label,
                                           inv[p].popup)),
                               ![p].at = "done"]
    /\ UNCHANGED <<task, pc, entry, kwargs, supplied, settings, ki, lang,
                   weather, forecast, weather_file, forecast_file,
                   weather_request, forecast_request, now, id, label, popup,
                   stdout, stderr, net, exc, polls, arg, ret>>

NextRace ==
    \/ RaceCheck
    \/ RaceRequest
    \/ RaceOpen
    \/ RaceDump
    \/ RaceLoad
    \/ RaceUpdate
    \/ RacePrint

SpecRace == InitRace /\ [][NextRace]_vars

----------------------------------------------------------------------------
(* The claims *)

\* The steps get_weather and get_forecast of a run.
WeatherStep == pc = "ready" /\ pc' = "weather_done"
ForecastStep == pc = "weather_done" /\ pc' = "forecast_done"

\* The cache file is missing or stale: now - mtime > interval - 1.
StaleOrMissing(file) ==
    ~file.exists \/ now - file.mtime > settings["interval"].v - 1

\* The reply parsed and carries a cod; the cod is 200 or "200".
HasCod(resp) ==
    resp.ok /\ resp.body # Garbage /\ resp.body.t = "dict"
        /\ "cod" \in DOMAIN resp.body
Succeeded(resp) == HasCod(resp) /\ resp.body.cod \in {I(200), S("200")}

\* C1 as the spec states it: with a stale or missing cache file, a success
\* response overwrites the cache file with that response; a failed request
\* or parse, or a response with another cod, leaves the cache file untouched
\* and the snapshot None.
C1_AsStated ==
    [][/\ (WeatherStep /\ StaleOrMissing(weather_file)) =>
            IF Succeeded(net'.weather.resp)
            THEN weather_file' = File(now, net'.weather.resp.body)
            ELSE weather_file' = weather_file /\ weather' = None
       /\ (ForecastStep /\ StaleOrMissing(forecast_file)) =>
            IF Succeeded(net'.forecast.resp)
            THEN forecast_file' = File(now, net'.forecast.resp.body)
            ELSE forecast_file' = forecast_file /\ forecast' = None]_vars

\* What get_weather / get_forecast leave behind after the exchange x, on the
\* file and the snapshot before and after.
C1_Outcome(x, file, fileAfter, snapshotAfter) ==
    IF Succeeded(x.resp) THEN
        /\ snapshotAfter = x.resp.body
        /\ fileAfter = IF x.writable THEN File(now, x.resp.body) ELSE file
    ELSE IF HasCod(x.resp) THEN
        fileAfter = file /\ snapshotAfter = x.resp.body
    ELSE fileAfter = file /\ snapshotAfter = None

\* C1, amended: with a stale or missing cache file, a success response
\* becomes the snapshot and overwrites the cache file unless the file cannot
\* be written; a response with another cod leaves the cache file untouched
\* and becomes the snapshot; a failed request or parse (or a reply without
\* cod) leaves the cache file untouched and the snapshot None.
C1_StaleFetch ==
    [][/\ (WeatherStep /\ StaleOrMissing(weather_file)) =>
            C1_Outcome(net'.weather, weather_file, weather_file', weather')
       /\ (ForecastStep /\ StaleOrMissing(forecast_file)) =>
            C1_Outcome(net'.forecast, forecast_file, forecast_file',
                       forecast')]_vars

\* A refused request has been answered: the snapshot is the reply.
C1_Witness ==
    /\ pc = "weather_done"
    /\ net.weather.requested
    /\ net.weather.resp \in RefusedReplies
    /\ weather = net.weather.resp.body
    /\ weather_file.exists /\ weather_file.mtime < now

\* Weather has success status and the forecast snapshot is None, {} or
\* carries another cod, when update_widget calls display_popup.
PopupWithoutForecast ==
    /\ pc = "forecast_done"
    /\ weather.t = "dict" /\ "cod" \in DOMAIN weather
    /\ weather.cod \in {I(200), S("200")}
    /\ \/ forecast \in {None, EmptyDict}
       \/ forecast.t = "dict" /\ "cod" \in DOMAIN forecast
            /\ forecast.cod \notin {I(200), S("200")}

\* C2 as the spec states it: display_popup returns None and logs "No data
\* available", without raising, whenever a snapshot is absent or has
\* another status: update_widget returns with the popup None.
C2_AsStated ==
    [][PopupWithoutForecast =>
          /\ pc' = "updated"
          /\ exc' = None
          /\ popup' = None
          /\ \/ stdout' = Append(stdout, S("No data available"))
             \/ stderr' = Append(stderr, S("No data available"))]_vars

\* The snapshots are what the fetches make of a well-formed provider:
\* absent, {}, a refusal, or a complete success response.
CompleteSnapshots ==
    /\ weather \in {None, EmptyDict}
                    \cup {r.body : r \in WeatherReplies \ FailedReplies}
    /\ forecast \in {None, EmptyDict}
                    \cup {r.body : r \in ForecastReplies \ FailedReplies}

\* C3 as the spec states it: once the arguments have parsed, no outcome of
\* the two fetches and no cache state makes an exception escape main.
C3_AsStated ==
    (entry = "main" /\ CompleteSnapshots) => pc # "raised" /\ exc = None

\* C4 as the spec states it: what main writes to standard output is the one
\* JSON line; "No data available" goes to the error stream.
C4_AsStated ==
    entry = "main" =>
        /\ \A i \in DOMAIN stdout :
               stdout[i].t = "fstr" /\ stdout[i].k = "json"
        /\ pc = "done" => Len(stdout) = 1

\* C5 as the spec states it: with a cache file that exists and is not
\* stale no request is issued, a snapshot that is held is left as it is and
\* otherwise the snapshot becomes the content of the cache file; a request
\* is issued exactly when the file is missing or stale.
C5_AsStated ==
    [][/\ WeatherStep =>
            /\ net'.weather.requested <=> StaleOrMissing(weather_file)
            /\ ~StaleOrMissing(weather_file) =>
                 weather' = IF Truthy(weather) THEN weather
                            ELSE weather_file.content
       /\ ForecastStep =>
            /\ net'.forecast.requested <=> StaleOrMissing(forecast_file)
            /\ ~StaleOrMissing(forecast_file) =>
                 forecast' = IF Truthy(forecast) THEN forecast
                             ELSE forecast_file.content]_vars

\* What a fresh cache file gives: its parsed content, {} when its text does
\* not parse.
C5_Loaded(file) == IF file.content = Garbage THEN EmptyDict ELSE file.content

\* C5, amended: with a cache file that exists and is not stale no request
\* is issued and the file is not written; a snapshot that is held is left
\* as it is, and otherwise the snapshot becomes the parsed content of the
\* cache file, or the empty mapping when the file does not parse.  A request
\* is issued exactly when the file is missing or stale.
C5_FreshCache ==
    [][/\ WeatherStep =>
            /\ net'.weather.requested <=> StaleOrMissing(weather_file)
            /\ ~StaleOrMissing(weather_file) =>
                 /\ weather' = IF Truthy(weather) THEN weather
                               ELSE C5_Loaded(weather_file)
                 /\ weather_file' = weather_file
       /\ ForecastStep =>
            /\ net'.forecast.requested <=> StaleOrMissing(forecast_file)
            /\ ~StaleOrMissing(forecast_file) =>
                 /\ forecast' = IF Truthy(forecast) THEN forecast
                                ELSE C5_Loaded(forecast_file)
                 /\ forecast_file' = forecast_file]_vars

\* A fresh cache file that does not parse has been loaded.
C5_Witness ==
    /\ pc = "weather_done"
    /\ ~net.weather.requested
    /\ weather_file.exists /\ weather_file.content = Garbage
    /\ now - weather_file.mtime = settings["interval"].v - 1
    /\ weather = EmptyDict

\* A success snapshot as the provider sends it: a condition id, a name and
\* a temperature that is a number.
ProviderWeather ==
    /\ weather.t = "dict" /\ "cod" \in DOMAIN weather
    /\ weather.cod \in {I(200), S("200")}
    /\ "id" \in DOMAIN weather.weather[1]
    /\ "name" \in DOMAIN weather
    /\ "temp" \in DOMAIN weather.main
    /\ weather.main.temp.t \in {"int", "float"}

\* The label the spec describes: the icon, the name if the toggle is on (the
\* override if it is not empty), the temperature to one decimal and the unit.
C6_Label ==
    [t |-> "fstr", k |-> "words",
     parts |->
        <<get_icon(weather.weather[1].id)>>
        \o (IF settings["show-name"] = B(TRUE)
            THEN <<IF settings["loc-name"] # S("") THEN settings["loc-name"]
                   ELSE weather.name>>
            ELSE <<>>)
        \o <<[t |-> "fstr", k |-> "temp",
              tenths |-> RoundHalfEven(Millis(weather.main.temp), 100),
              unit |-> degrees[settings["units"].v]]>>]

\* C6 as the spec states it: whenever the weather snapshot has success
\* status, the label update_widget produces is the icon, the name iff the
\* toggle is on, and the temperature, which is there for every temperature
\* the provider reports.
C6_AsStated ==
    [][(pc = "forecast_done" /\ ProviderWeather) => label' = C6_Label]_vars

\* The per-entry fields of a forecast row and the command-line flag of each.
C7_Flag ==
    [humidity |-> "show_humidity", wind |-> "show_wind",
     pressure |-> "show_pressure", cloudiness |-> "show_cloudiness",
     visibility |-> "show_visibilty", pop |-> "show_pop",
     volume |-> "show_volume"]

\* The entry carries the field (a value of 0 counts as none, as the spec
\* says of the precipitation probability and of every accessor).
C7_Carries(e, f) ==
    CASE f \in {"humidity", "pressure"} ->
            f \in DOMAIN e.main /\ Truthy(e.main[f])
      [] f = "wind" -> "wind" \in DOMAIN e
      [] f = "cloudiness" -> "clouds" \in DOMAIN e
      [] f = "visibility" -> "visibility" \in DOMAIN e
      [] f = "pop" -> "pop" \in DOMAIN e /\ Truthy(e.pop)
      [] f = "volume" -> "rain" \in DOMAIN e \/ "snow" \in DOMAIN e

C7_IsEntryRow(r) == r.k = "row"

\* The row of the popup shows the field.
C7_Shows(row, f) ==
    \E i \in DOMAIN row.a :
        row.a[i].field \in (IF f = "volume" THEN {"rain", "snow"} ELSE {f})

\* C7 as the spec states it: a field is in a forecast row iff its toggle is
\* on and the entry carries it, and each toggle is switched on by its
\* --show-<name> flag.
C7_AsStated ==
    (entry = "main" /\ pc \in {"updated", "done"} /\ popup.t = "fstr") =>
        \A i \in DOMAIN forecast.list : \A f \in DOMAIN C7_Flag :
            C7_Shows(SelectSeq(popup.rows, C7_IsEntryRow)[i], f)
                <=> (kwargs[C7_Flag[f]] = B(TRUE)
                        /\ C7_Carries(forecast.list[i], f))

\* C8: direction is total over the whole degrees 0..360: every degree maps
\* to exactly one of the eight octants, never the unknown sentinel,
\* following the ranges [0,23] and [337,360] -> N, [24,68] -> NE,
\* [69,113] -> E, [114,158] -> SE, [159,203] -> S, [204,248] -> SW,
\* [249,293] -> W, [294,336] -> NW; 293 is W.
C8_DirectionTotal ==
    pc = "returned" =>
        /\ ret.v \in {"N", "NE", "E", "SE", "S", "SW", "W", "NW"}
        /\ ret.v = "N" <=> arg.v \in (0..23) \cup (337..360)
        /\ ret.v = "NE" <=> arg.v \in 24..68
        /\ ret.v = "E" <=> arg.v \in 69..113
        /\ ret.v = "SE" <=> arg.v \in 114..158
        /\ ret.v = "S" <=> arg.v \in 159..203
        /\ ret.v = "SW" <=> arg.v \in 204..248
        /\ ret.v = "W" <=> arg.v \in 249..293
        /\ ret.v = "NW" <=> arg.v \in 294..336

\* direction has been called on 293 and on a degree of the second N range.
C8_Witness == pc = "returned" /\ arg = I(293) /\ ret = S("W")

\* The keys of the default table the constructor has gone through.
C9_Visited == {DefaultKeys[i] : i \in 1..(ki - 1)}

\* C9: check_key inserts the default only for a key that is absent and
\* otherwise leaves the mapping as it is; so throughout the default merge
\* every key the caller supplied holds the caller's value, every default key
\* visited is present, with the default value if the caller gave none, and
\* nothing else is in the mapping; after the merge every key of the default
\* table is present.
C9_DefaultMerge ==
    pc = "init" =>
        /\ \A k \in DOMAIN supplied : settings[k] = supplied[k]
        /\ \A k \in C9_Visited \ DOMAIN supplied : settings[k] = defaults[k]
        /\ DOMAIN settings = DOMAIN supplied \cup C9_Visited
        /\ ki > Len(DefaultKeys) => DOMAIN defaults \subseteq DOMAIN settings

\* The merge is over for a caller who asked for imperial units.
C9_Witness ==
    /\ pc = "init" /\ ki > Len(DefaultKeys)
    /\ "units" \in DOMAIN supplied /\ supplied["units"] = S("imperial")
    /\ settings["units"] = S("imperial")
    /\ "lang" \notin DOMAIN supplied /\ settings["lang"] = S("fr")

\* The coordinate the caller supplied, the default when the caller gave none.
C10_Given(k) == IF k \in DOMAIN supplied THEN supplied[k] ELSE defaults[k]

C10_Falsy(x) == x \in {None, I(0), F(0), S(""), B(FALSE)}

\* C10: after the construction, if the latitude or the longitude supplied
\* is falsy both coordinates are the default reference location, otherwise
\* both are as supplied; the two request URLs carry the resulting pair.
C10_Coordinates ==
    pc \in {"ready", "weather_done", "forecast_done", "updated", "raised",
            "done"} =>
        /\ IF C10_Falsy(C10_Given("lat")) \/ C10_Falsy(C10_Given("long"))
           THEN settings["lat"] = Coord(488583701)
                    /\ settings["long"] = Coord(22944813)
           ELSE settings["lat"] = C10_Given("lat")
                    /\ settings["long"] = C10_Given("long")
        /\ weather_request.lat = settings["lat"]
        /\ weather_request.lon = settings["long"]
        /\ weather_request.endpoint = "weather"
        /\ forecast_request.lat = settings["lat"]
        /\ forecast_request.lon = settings["long"]
        /\ forecast_request.endpoint = "forecast"

\* A caller gave a latitude and a longitude of 0.0: both are replaced.
C10_Witness ==
    /\ pc = "ready"
    /\ "lat" \in DOMAIN supplied /\ supplied["lat"] = Coord(455000000)
    /\ "long" \in DOMAIN supplied /\ supplied["long"] = F(0)
    /\ settings["lat"] = Coord(488583701)
    /\ weather_request.lon = Coord(22944813)

C11_IsRow(r) == r.k = "row"
C11_IsDay(r) == r.k = "day"

\* The entries of the forecast list at the indices 0..31.
C11_First == SubSeq(forecast.list, 1,
                    IF Len(forecast.list) < 32 THEN Len(forecast.list) ELSE 32)

\* The calendar days of the entries of list at which the day changes.
C11_Days(list) ==
    LET NewDay(i) == i = 1 \/ DayLabel(list[i].dt.v)
                                # DayLabel(list[i - 1].dt.v)
        at == SelectSeq([i \in 1..Len(list) |-> i], NewDay)
    IN  [j \in 1..Len(at) |-> I(DayLabel(list[at[j]].dt.v))]

\* C11: display_popup emits at most 32 entry rows, the rows of the first 32
\* entries of the forecast list in order, whatever the length of the list;
\* the entries at index 32 and beyond give neither an entry row nor a day
\* header: the popup is the popup of the list cut after its 32nd entry.
C11_RowCap ==
    (pc = "returned" /\ ret.t = "fstr") =>
        /\ Len(SelectSeq(ret.rows, C11_IsRow)) = Len(C11_First)
        /\ Len(SelectSeq(ret.rows, C11_IsRow)) <= 32
        /\ \A i \in 1..Len(C11_First) :
             SelectSeq(ret.rows, C11_IsRow)[i]
                = Fmt("row", EntryItems(C11_First[i], settings,
                                        settings["popup-forecast-size"]).v)
        /\ [i \in 1..Len(SelectSeq(ret.rows, C11_IsDay)) |->
               SelectSeq(ret.rows, C11_IsDay)[i].a]
             = C11_Days(C11_First)
        /\ ret = display_popup(weather, [forecast EXCEPT !.list = C11_First],
                               settings, lang, forecast_file).ret

\* A popup of a list of 34 entries whose entry at index 32 starts a day of
\* its own: 32 entry rows and the headers of four days.
C11_Witness ==
    /\ pc = "returned" /\ ret.t = "fstr"
    /\ Len(forecast.list) = 34
    /\ Len(SelectSeq(ret.rows, C11_IsRow)) = 32
    /\ DayLabel(forecast.list[33].dt.v) # DayLabel(forecast.list[32].dt.v)
    /\ Len(SelectSeq(ret.rows, C11_IsDay)) = 4

\* C14 as the spec states it: with success snapshots in which an optional
\* field is missing or falsy, display_popup raises nothing and returns a
\* popup made of the remaining parts.
C14_AsStated ==
    (pc = "returned" /\ entry = "helper" /\ Len(forecast.list) = 1) =>
        exc = None /\ ret.t = "fstr"

\* C13: whatever the network answers to any sequence of get_weather and
\* get_forecast calls, a cache file changes only in a call whose response
\* parsed with cod 200 or "200", and then holds that whole response: it
\* holds what it held at first or a complete success response; a failed
\* request or another cod never creates, modifies or truncates it.
C13_CacheIntegrity ==
    [][/\ weather_file' # weather_file =>
            /\ WeatherStep /\ Succeeded(net'.weather.resp)
            /\ weather_file' = File(now, net'.weather.resp.body)
            /\ weather_file'.content.cod \in {I(200), S("200")}
       /\ forecast_file' # forecast_file =>
            /\ ForecastStep /\ Succeeded(net'.forecast.resp)
            /\ forecast_file' = File(now, net'.forecast.resp.body)
            /\ forecast_file'.content.cod \in {I(200), S("200")}
       /\ (WeatherStep /\ ~Succeeded(net'.weather.resp)) =>
            weather_file' = weather_file
       /\ (ForecastStep /\ ~Succeeded(net'.forecast.resp)) =>
            forecast_file' = forecast_file]_vars

\* The second get_data of a host: the weather cache its first call wrote
\* has gone stale, the request was refused, and the file is as it was.
C13_Witness ==
    /\ entry = "direct" /\ polls < MaxPolls /\ pc = "weather_done"
    /\ net.weather.requested /\ net.weather.resp \in RefusedReplies
    /\ weather_file.exists /\ weather_file.mtime = StartTime
    /\ weather_file.content.cod \in {I(200), S("200")}
    /\ now > StartTime

\* The weather snapshot is present with cod 200 / "200".
C16_WeatherOk ==
    /\ weather.t = "dict" /\ "cod" \in DOMAIN weather
    /\ weather.cod \in {I(200), S("200")}

\* C16: get_data runs fetch-weather, then fetch-forecast, then
\* update_widget, in that order and each once; update_widget changes the
\* label and the popup only when the weather snapshot is present with cod
\* 200 / "200", and otherwise leaves label, popup and id as they were.
C16_GetData ==
    [][/\ pc = "ready" =>
            /\ pc' = "weather_done"
            /\ UNCHANGED <<forecast, forecast_file, id, label, popup>>
       /\ pc = "weather_done" =>
            /\ pc' = "forecast_done"
            /\ UNCHANGED <<weather, weather_file, id, label, popup>>
       /\ pc = "forecast_done" =>
            /\ pc' \in {"updated", "raised"}
            /\ UNCHANGED <<weather, forecast, weather_file, forecast_file>>
            /\ ~C16_WeatherOk => UNCHANGED <<id, label, popup>>
            /\ (label' # label \/ popup' # popup) => C16_WeatherOk
       /\ pc \in {"updated", "raised"} =>
            /\ pc' \in {"done", "ready"}
            /\ UNCHANGED <<weather, forecast, weather_file, forecast_file,
                           id, label, popup>>]_vars

\* The second get_data of a host found no weather: the label and the popup
\* of its first call are still there.
C16_Witness ==
    /\ entry = "direct" /\ polls < MaxPolls /\ pc = "updated"
    /\ ~C16_WeatherOk
    /\ label.t = "fstr" /\ popup.t = "fstr"

\* The thread has been started, with an interval that is positive / not.
C12_Looping == task.t = "thread" /\ task.started /\ task.interval > 0
C12_Single == task.t = "thread" /\ task.started /\ task.interval <= 0

\* Where loop_wrapper stands, and how often the target has been invoked.
C12_At(x) == task.t = "thread" /\ task.at = x
C12_Calls(n) == task.t = "thread" /\ task.calls = n

\* C12: create_background_task returns a daemon thread that is not
\* started; once it is started, with interval > 0 the target (a target
\* that returns) is invoked again and again for ever, a sleep after each
\* invocation, and the thread never ends; with interval <= 0 the target is
\* invoked exactly once and the thread ends.
C12_Task ==
    /\ [](pc = "returned" =>
            task.daemon /\ ~task.started /\ task.calls = 0
                /\ task.at = "idle")
    /\ [](C12_Looping => ~C12_At("ended"))
    /\ C12_Looping ~> C12_At("sleep")
    /\ (C12_Looping /\ C12_At("sleep")) ~> C12_At("while")
    /\ \A n \in 0..(MaxCalls - 1) :
          (C12_Looping /\ C12_Calls(n)) ~> C12_Calls(n + 1)
    /\ [][(C12_Looping /\ task'.calls # task.calls) =>
              task'.at = "sleep"]_vars
    /\ C12_Single ~> (C12_At("ended") /\ C12_Calls(1))
    /\ [](C12_Single => task.calls <= 1)
    /\ []((C12_Single /\ C12_At("ended")) => [](C12_At("ended")))

\* A thread with a positive interval sleeps after the third invocation of
\* its target.
C12_Witness ==
    /\ task.t = "thread" /\ task.started /\ task.interval = 2
    /\ task.calls = 3 /\ task.at = "sleep"

\* C15 as the spec states it: the cache files are complete at first and
\* the provider answers every request with success, so that a run on its
\* own ends with a label and a popup; then, however the steps of two runs
\* interleave, no run loads a partially written cache file, none ends with
\* empty output and none fails.
C15_AsStated ==
    \A p \in Invocations :
        /\ ~inv[p].torn
        /\ inv[p].at # "raised" /\ inv[p].exc = None
        /\ inv[p].at = "done" =>
             inv[p].label.t = "fstr" /\ inv[p].popup.t = "fstr"

====
